---------------------------- MODULE Spec2Model ----------------------------
(***************************************************************************)
(* A model of qd.py, the multi-site Discuz check-in script.                *)
(*                                                                         *)
(* Text is modelled as a sequence of tokens.  A token is one character of  *)
(* the marker phrases the script searches for, or a chunk of text holding  *)
(* none of those characters, so that Python's `in` and `startswith` are    *)
(* substring and prefix tests on token sequences.  The Chinese characters  *)
(* are written in pinyin:                                                  *)
(*    "chenggong"     = the 'success' marker (no searched phrase splits it)*)
(*    "yi" "qian"     = the two characters of the 'already signed' marker  *)
(*    "dao"           = the second character of 'check-in' (qian dao)      *)
(*    "jinri"         = 'today'                                            *)
(***************************************************************************)
EXTENDS Naturals, Sequences, FiniteSets, TLC

VARIABLES
  doc,            \* the parsed configuration document (yaml.safe_load's result)
  pc,             \* where main() stands
  sites_config,   \* main's sites_config: the validated sites
  pushplus_config,\* main's pushplus_config
  notification,   \* the title handed to send_notification ("" when none)
  si,             \* index of the site the for loop of main is at
  ai,             \* sign_site's idx: the account being processed
  results,        \* sign_site's results list
  formhash,       \* sign_account's resolved formhash
  msg,            \* sign_account's msg
  all_results,    \* main's all_results, an insertion-ordered mapping
  push,           \* the PushPlus notification built at the end of main
  events,         \* the HTTP requests and sleeps issued so far, in order
  last,           \* what the environment answered to the current account
  cats,           \* outcome category of each entry of results
  produced,       \* what each site run so far handed back to main
  resp            \* the response under classification (status, body)

vars == <<doc, pc, sites_config, pushplus_config, notification, si, ai, results,
          formhash, msg, all_results, push, events, last, cats, produced, resp>>

-----------------------------------------------------------------------------
(* Bounds of the model *)

\* sites in a run of main
MaxSites == 2
\* accounts of one site in a run
MaxAccounts == 2
\* accounts in a multi-site run, all sites together
MaxRunAccounts == 2
\* sites of a configuration document given to load_config alone
MaxCfgSites == 2
\* account entries of such a document, all sites together
MaxCfgAccounts == 2
\* tokens of a response body given to the classification alone
MaxBodyLen == 5

-----------------------------------------------------------------------------
(* Text helpers *)

\* Python's `needle in hay`
Contains(hay, needle) ==
  \E i \in 0..(Len(hay) - Len(needle)) :
    \A j \in 1..Len(needle) : hay[i + j] = needle[j]

\* Python's hay.startswith(prefix)
StartsWith(hay, prefix) ==
  /\ Len(prefix) <= Len(hay)
  /\ \A j \in 1..Len(prefix) : hay[j] = prefix[j]

RECURSIVE RStrip(_, _)
\* Python's s.rstrip(ch)
RStrip(s, ch) ==
  IF s /= <<>> /\ s[Len(s)] = ch THEN RStrip(SubSeq(s, 1, Len(s) - 1), ch) ELSE s

RECURSIVE LStrip(_, _)
LStrip(s, ch) ==
  IF s /= <<>> /\ s[1] = ch THEN LStrip(Tail(s), ch) ELSE s

\* Python's s.strip(): the whitespace token is " "
Strip(s) == RStrip(LStrip(s, " "), " ")

RECURSIVE SeqsUpTo(_, _)
\* the sequences over S of length at most n
SeqsUpTo(S, n) ==
  IF n = 0 THEN {<<>>}
  ELSE LET shorter == SeqsUpTo(S, n - 1)
       IN  shorter \cup {Append(s, x) : s \in {t \in shorter : Len(t) = n - 1}, x \in S}

SeqsOfLen(S, n) == {s \in SeqsUpTo(S, n) : Len(s) = n}

-----------------------------------------------------------------------------
(* load_config *)

\* site.get("name", ...)'s default, "unnamed site"
UnnamedSite == "unnamed_site"
\* the name given to a legacy single-site document, "default site"
DefaultSite == "default_site"

\* options of a site: None (the key is there with no value), or a mapping
\* that may hold rotate_accounts
NoneOptions  == [type |-> "NoneType", rotate_accounts |-> "absent"]
EmptyOptions == [type |-> "dict", rotate_accounts |-> "absent"]
RotateOn     == [type |-> "dict", rotate_accounts |-> "True"]
RotateOff    == [type |-> "dict", rotate_accounts |-> "False"]

\* the accounts a site's auth section names: the "accounts" list, else the
\* legacy "cookies" list turned into accounts, else none
resolve_accounts(auth) ==
  IF auth.kind = "accounts" THEN auth.accounts
  ELSE IF auth.kind = "cookies"
       THEN [i \in 1..Len(auth.cookies) |-> [cookies |-> auth.cookies[i]]]
       ELSE <<>>

\* validate_accounts without the skip of empty cookies
validate_accounts_keep_empty(accounts) ==
  [i \in 1..Len(accounts) |->
     [cookies |-> accounts[i].cookies,
      formhash |-> IF "formhash" \in DOMAIN accounts[i] THEN accounts[i].formhash ELSE ""]]

RECURSIVE validate_accounts(_)
\* the loop over a site's accounts: an account with empty cookies is skipped
validate_accounts(accounts) ==
  IF accounts = <<>> THEN <<>>
  ELSE LET account == Head(accounts)
           cookies == account.cookies
           fh == IF "formhash" \in DOMAIN account THEN account.formhash ELSE ""
       IN  IF cookies = ""
           THEN validate_accounts(Tail(accounts))
           ELSE <<[cookies |-> cookies, formhash |-> fh]>>
                  \o validate_accounts(Tail(accounts))

RECURSIVE validate_sites(_)
\* the loop over sites_config: a site with an empty url, no accounts or no
\* valid account is skipped
validate_sites(sites) ==
  IF sites = <<>> THEN <<>>
  ELSE LET site == Head(sites)
           base_url == RStrip(site.url, "/")
           accounts == resolve_accounts(site.auth)
           site_name == IF site.has_name THEN site.name ELSE UnnamedSite
           validated_accounts == validate_accounts(accounts)
           rest == validate_sites(Tail(sites))
       IN  IF base_url = <<>> THEN rest
           ELSE IF accounts = <<>> THEN rest
           ELSE IF validated_accounts = <<>> THEN rest
           ELSE <<[name |-> site_name, url |-> base_url,
                   accounts |-> validated_accounts, options |-> site.options]>> \o rest

\* a legacy-format document turned into the list of one site (or none)
legacy_sites(d) ==
  LET base_url == RStrip(d.site_url, "/")
  IN  IF base_url /= <<>> /\ d.cookies /= <<>>
      THEN <<[has_name |-> TRUE, name |-> DefaultSite, url |-> base_url,
              auth |-> [kind |-> "accounts",
                        accounts |-> [i \in 1..Len(d.cookies) |-> [cookies |-> d.cookies[i]]],
                        cookies |-> <<>>],
              options |-> d.options]>>
      ELSE <<>>

\* load_config on a document that exists: the validated sites and the push
\* configuration, or the error raised
load_config(d) ==
  LET sites_cfg == IF d.format = "sites" THEN d.sites ELSE legacy_sites(d)
      validated_sites == validate_sites(sites_cfg)
  IN  IF sites_cfg = <<>>
      THEN [ok |-> FALSE, error |-> "no_sites", sites |-> <<>>, pushplus |-> d.pushplus]
      ELSE IF validated_sites = <<>>
      THEN [ok |-> FALSE, error |-> "no_valid_sites", sites |-> <<>>, pushplus |-> d.pushplus]
      ELSE [ok |-> TRUE, error |-> "", sites |-> validated_sites, pushplus |-> d.pushplus]

-----------------------------------------------------------------------------
(* Configuration documents *)

\* the auth sections naming exactly k accounts
AuthsWith(k, P) ==
  {[kind |-> "accounts", accounts |-> a, cookies |-> <<>>] : a \in SeqsOfLen(P.accts, k)}
    \cup (IF "cookies" \in P.kinds
          THEN {[kind |-> "cookies", accounts |-> <<>>, cookies |-> c] :
                  c \in SeqsOfLen({a.cookies : a \in P.accts}, k)}
          ELSE {})
    \cup (IF "none" \in P.kinds /\ k = 0
          THEN {[kind |-> "none", accounts |-> <<>>, cookies |-> <<>>]}
          ELSE {})

\* the site entries naming exactly k accounts; the name "" is an absent name
SiteDocsWith(k, P) ==
  {[has_name |-> n /= "", name |-> n, url |-> u, auth |-> a, options |-> o] :
     n \in P.names, u \in P.urls, a \in AuthsWith(k, P), o \in P.opts}

RECURSIVE SumSeq(_)
SumSeq(ks) == IF ks = <<>> THEN 0 ELSE Head(ks) + SumSeq(Tail(ks))

\* how many accounts each of n sites may name: at most `each` per site and
\* `budget` together
AccountCounts(n, budget, each) ==
  {ks \in [1..n -> {j \in 0..budget : j <= each}] : SumSeq(ks) <= budget}

RECURSIVE SiteListsFor(_, _)
\* the lists of site entries of which the i-th names ks[i] accounts
SiteListsFor(ks, P) ==
  IF ks = <<>> THEN {<<>>}
  ELSE {<<s>> \o rest : s \in SiteDocsWith(Head(ks), P), rest \in SiteListsFor(Tail(ks), P)}

SitesDocument(sites, pp) ==
  [format |-> "sites", sites |-> sites, site_url |-> <<>>, cookies |-> <<>>,
   options |-> EmptyOptions, pushplus |-> pp]

LegacyDocument(url, cookies, o, pp) ==
  [format |-> "legacy", sites |-> <<>>, site_url |-> url, cookies |-> cookies,
   options |-> o, pushplus |-> pp]

PushOff == [enabled |-> FALSE, token |-> ""]
PushOn == [enabled |-> TRUE, token |-> "tok"]
PushNoToken == [enabled |-> TRUE, token |-> ""]

\* what the documents of a run are built from
RunP ==
  [names |-> {"A", "B"},
   urls |-> {<<"h">>},
   accts |-> {[cookies |-> "c1", formhash |-> ""], [cookies |-> "c1", formhash |-> "h0"]},
   opts |-> {NoneOptions, EmptyOptions, RotateOn, RotateOff},
   kinds |-> {"accounts"}]

\* what the documents given to load_config alone are built from
CfgP ==
  [names |-> {"", "A"},
   urls |-> {<<"/">>, <<"h">>, <<"h", "/", "/">>},
   accts |-> {[cookies |-> "", formhash |-> ""], [cookies |-> "c1", formhash |-> ""],
              [cookies |-> "c2", formhash |-> "h0"]},
   opts |-> {EmptyOptions},
   kinds |-> {"accounts", "cookies", "none"}]

-----------------------------------------------------------------------------
(* Messages *)

SuccessMarker == <<"chenggong">>
SignedMarker == <<"yi", "qian">>

\* the test of lines 108, 397 and 449: "success" in r or "already signed" in r
IsSuccess(r) == Contains(r, SuccessMarker) \/ Contains(r, SignedMarker)

AlreadyMsg == <<"OK ", "jinri", "yi", "qian", ", mingri zai lai~">>
SuccessMsg(reward) == <<"PARTY ", "qian", "dao", "chenggong", ", jiangli: ">> \o reward
UnknownMsg == <<"? weizhi xiangying">>
StatusFailMsg(code) == <<"X ", "qian", "dao", "shibai, zhuangtaima: ", ToString(code)>>
TokenFailMsg(n, e) == <<"di ", ToString(n), " ge zhanghao formhash huoqu shibai: ">> \o e
RequestFailMsg(n, e) == <<"di ", ToString(n), " ge zhanghao qingqiu shibai: ">> \o e
DaysSuffix(days) == <<" | lianxu ", "qian", "dao", ": ", days, " tian">>
SiteExceptionMsg(e) == <<"X chuli yichang: ">> \o e
UnknownReward == <<"weizhi jiangli">>

\* str(e) of the AttributeError raised by None.get
NoneGetError == <<"'NoneType' object has no attribute 'get'">>
\* the error fetch_formhash raises when the homepage cannot be fetched
HomeUnreachable(e) == <<"wufa fangwen luntan shouye: ">> \o e
\* the error fetch_formhash raises when no pattern matches
FormhashNotFound == <<"weizhaodao formhash, qing jiancha denglu zhuangtai huo wangye jiegou.">>

SuccessTitle == "OK Discuz luntan qiandao chenggong"
FailureTitle == "X Discuz luntan qiandao shibai"
ConfigErrorTitle == "X peizhi cuowu"

-----------------------------------------------------------------------------
(* What the network may answer *)

\* str(e) of a network failure: a plain one, and Windows' error 0 text on a
\* Chinese locale ("the operation completed successfully"), which holds the
\* success marker
Causes == {<<"timed out">>, <<"[WinError 0] caozuo", "chenggong", "wancheng.">>}

\* a homepage is the list of its pieces: text, an occurrence of
\* formhash=<val>, or a form field name="formhash" value="<val>"
HomePages ==
  {<<[tag |-> "text", val |-> ""]>>,
   <<[tag |-> "query", val |-> "h1"]>>,
   <<[tag |-> "field", val |-> "h2"]>>,
   <<[tag |-> "field", val |-> "h2"], [tag |-> "query", val |-> "h1"]>>}

HomeAnswers ==
  {[kind |-> "netfail", cause |-> c, html |-> <<>>] : c \in Causes}
    \cup {[kind |-> "page", cause |-> <<>>, html |-> h] : h \in HomePages}

Statuses == {200, 500}

BodyAlready == <<" ", "<?xml", "jinri", "yi", "qian", " ">>
BodySuccess ==
  <<"qian", "dao", "chenggong", "yi", "qian", "dao", "huode suiji jiangli", " ",
    "shi jinbi", ".">>
BodySuccessNoReward == <<"qian", "dao", "chenggong", "yi", "qian", "dao">>
BodyUnknown == <<"jinri", "yi", "qian">>
\* an XML body that holds the already-signed marker and both success phrases
BodyOverlap == <<"<?xml", "jinri", "yi", "qian", "dao", "chenggong">>

\* the bodies a run may receive
Bodies == {BodyAlready, BodySuccess, BodyUnknown, BodyOverlap}

SignAnswers ==
  {[kind |-> "netfail", cause |-> c, status |-> 0, body |-> <<>>] : c \in Causes}
    \cup {[kind |-> "response", cause |-> <<>>, status |-> st, body |-> b] :
            st \in Statuses, b \in Bodies}

\* a streak page is the list of the values of its lxdays hidden inputs
DaysAnswers ==
  {[kind |-> "netfail", hits |-> <<>>]}
    \cup {[kind |-> "page", hits |-> h] : h \in {<<>>, <<"0">>, <<"7">>}}

-----------------------------------------------------------------------------
(* fetch_formhash, the classification, fetch_continuous_days *)

\* re.search over the pieces of a page: the first piece with the tag
FirstWithTag(html, tag) ==
  LET hits == {i \in 1..Len(html) : html[i].tag = tag}
  IN  IF hits = {} THEN 0 ELSE CHOOSE i \in hits : \A j \in hits : i <= j

\* fetch_formhash handing back an empty formhash where it should raise
fetch_formhash_no_raise(answer) ==
  IF answer.kind = "netfail"
  THEN [ok |-> FALSE, formhash |-> "", error |-> HomeUnreachable(answer.cause)]
  ELSE LET q == FirstWithTag(answer.html, "query")
           f == FirstWithTag(answer.html, "field")
       IN  IF q > 0 THEN [ok |-> TRUE, formhash |-> answer.html[q].val, error |-> <<>>]
           ELSE IF f > 0 THEN [ok |-> TRUE, formhash |-> answer.html[f].val, error |-> <<>>]
           ELSE [ok |-> TRUE, formhash |-> "", error |-> <<>>]

\* fetch_formhash: the formhash, or the error raised
fetch_formhash(answer) ==
  IF answer.kind = "netfail"
  THEN [ok |-> FALSE, formhash |-> "", error |-> HomeUnreachable(answer.cause)]
  ELSE LET q == FirstWithTag(answer.html, "query")
           f == FirstWithTag(answer.html, "field")
       IN  IF q > 0 THEN [ok |-> TRUE, formhash |-> answer.html[q].val, error |-> <<>>]
           ELSE IF f > 0 THEN [ok |-> TRUE, formhash |-> answer.html[f].val, error |-> <<>>]
           ELSE [ok |-> FALSE, formhash |-> "", error |-> FormhashNotFound]

\* the sign-in URL of line 338
SignUrl(base_url, fh) ==
  base_url \o <<"/k_misign-sign.html?operation=qiandao&format=button&formhash=", fh>>

\* the first position of token t in text, 0 when absent
IndexOf(text, t) ==
  LET hits == {i \in 1..Len(text) : text[i] = t}
  IN  IF hits = {} THEN 0 ELSE CHOOSE i \in hits : \A j \in hits : i <= j

\* the reward captured by the pattern of line 354: what follows the first
\* "random reward" phrase, after whitespace, up to the first full stop
Reward(text) ==
  LET i == IndexOf(text, "huode suiji jiangli")
      after == IF i = 0 THEN <<>> ELSE SubSeq(text, i + 1, Len(text))
      j == IndexOf(LStrip(after, " "), ".")
  IN  IF i = 0 \/ j = 0 THEN UnknownReward
      ELSE SubSeq(LStrip(after, " "), 1, j - 1)

IsXmlAlreadySigned(text) ==
  StartsWith(text, <<"<?xml">>) /\ Contains(text, <<"jinri", "yi", "qian">>)

HasSuccessPhrases(text) ==
  Contains(text, <<"qian", "dao", "chenggong">>) /\ Contains(text, <<"yi", "qian", "dao">>)

\* the classification with the success check made before the already-signed check
classify_success_first(status, body) ==
  LET text == Strip(body)
  IN  IF status = 200
      THEN IF HasSuccessPhrases(text)
           THEN [cat |-> "success", msg |-> SuccessMsg(Reward(text))]
           ELSE IF IsXmlAlreadySigned(text)
           THEN [cat |-> "already", msg |-> AlreadyMsg]
           ELSE [cat |-> "unknown", msg |-> UnknownMsg]
      ELSE [cat |-> "status_fail", msg |-> StatusFailMsg(status)]

\* lines 349-362: the category and message of a response
classify(status, body) ==
  LET text == Strip(body)
  IN  IF status = 200
      THEN IF IsXmlAlreadySigned(text)
           THEN [cat |-> "already", msg |-> AlreadyMsg]
           ELSE IF HasSuccessPhrases(text)
           THEN [cat |-> "success", msg |-> SuccessMsg(Reward(text))]
           ELSE [cat |-> "unknown", msg |-> UnknownMsg]
      ELSE [cat |-> "status_fail", msg |-> StatusFailMsg(status)]

\* fetch_continuous_days: <<days>>, or <<>> for None
fetch_continuous_days(answer) ==
  IF answer.kind = "netfail" THEN <<>>
  ELSE IF answer.hits /= <<>> THEN <<answer.hits[1]>>
  ELSE <<>>

\* the suffix appended only for a streak that is not zero
AppendDaysNonZero(m, days) ==
  IF days /= <<>> /\ days[1] /= "0" THEN m \o DaysSuffix(days[1]) ELSE m

\* lines 366-367: `if days:` appends the streak suffix
AppendDays(m, days) ==
  IF days /= <<>> /\ days[1] /= "" THEN m \o DaysSuffix(days[1]) ELSE m

-----------------------------------------------------------------------------
(* sign_site and main *)

\* options.get("rotate_accounts", True)
Rotate(options) == options.rotate_accounts /= "False"

\* the delay test with the last account included
RotateDelayAfterLast(options, idx, n) == Rotate(options) /\ idx <= n

\* line 392: whether sign_site sleeps 2 seconds after account idx of n
RotateDelay(options, idx, n) == Rotate(options) /\ idx < n

\* line 440: whether main sleeps 3 seconds after a site, n sites configured
SiteDelay(n) == n > 1

\* line 397: the success count of a site
SuccessCount(rs) == Cardinality({i \in 1..Len(rs) : IsSuccess(rs[i])})

\* all_results[name] = entry: a new key goes last, an old key keeps its place
AssignResult(all, entry) ==
  IF \E i \in 1..Len(all) : all[i].name = entry.name
  THEN [i \in 1..Len(all) |-> IF all[i].name = entry.name THEN entry ELSE all[i]]
  ELSE Append(all, entry)

RECURSIVE format_push_content(_)
\* the totals format_push_content returns beside the report text
format_push_content(all) ==
  IF all = <<>> THEN [total_success |-> 0, total_accounts |-> 0]
  ELSE LET rest == format_push_content(Tail(all))
       IN  [total_success |-> SuccessCount(Head(all).results) + rest.total_success,
            total_accounts |-> Len(Head(all).results) + rest.total_accounts]

\* lines 462-465
Title(total_success, total_accounts) ==
  IF total_success = total_accounts THEN SuccessTitle ELSE FailureTitle

NoPush == [sent |-> FALSE, title |-> "", total_success |-> 0, total_accounts |-> 0]
NoResp == [status |-> 0, body |-> <<>>]
NoLast ==
  [site |-> 0, acct |-> 0, home |-> "", sign |-> "", days |-> "", cat |-> "",
   days_val |-> "", cls |-> <<>>, out |-> <<>>, sign_url |-> <<>>, returned |-> FALSE]

Event(e, s, a) == [ev |-> e, site |-> s, acct |-> a]

InitRest ==
  /\ sites_config = <<>>
  /\ pushplus_config = PushOff
  /\ notification = ""
  /\ si = 0
  /\ ai = 0
  /\ results = <<>>
  /\ formhash = ""
  /\ msg = <<>>
  /\ all_results = <<>>
  /\ push = NoPush
  /\ events = <<>>
  /\ last = NoLast
  /\ cats = <<>>
  /\ produced = <<>>

InitWith(d) ==
  /\ doc = d
  /\ pc = "load"
  /\ resp = NoResp
  /\ InitRest

\* main starts on a document of up to MaxSites sites holding up to
\* MaxRunAccounts accounts together
Init ==
  \E n \in 1..MaxSites :
    \E ks \in AccountCounts(n, MaxRunAccounts, MaxAccounts) :
      \E s \in SiteListsFor(ks, RunP) :
        \E pp \in {PushOn, PushOff} :
          InitWith(SitesDocument(s, pp))

\* main, lines 408-414: load the configuration or exit with status 1
LoadConfig ==
  /\ pc = "load"
  /\ LET r == load_config(doc)
     IN  IF r.ok
         THEN /\ sites_config' = r.sites
              /\ pushplus_config' = r.pushplus
              /\ si' = 1
              /\ pc' = "site"
              /\ notification' = notification
         ELSE /\ notification' = ConfigErrorTitle
              /\ pc' = "exit1"
              /\ UNCHANGED <<sites_config, pushplus_config, si>>
  /\ UNCHANGED <<doc, ai, results, formhash, msg, all_results, push, events, last,
                 cats, produced, resp>>

\* the events after a site: main sleeps 3 seconds when several sites are configured
AfterSite(evs) ==
  IF SiteDelay(Len(sites_config)) THEN Append(evs, Event("sleep3", si, 0)) ELSE evs

\* main, lines 431-438: sign_site raised (options.get on None, line 380)
SignSiteRaises ==
  /\ pc = "site"
  /\ si <= Len(sites_config)
  /\ sites_config[si].options.type = "NoneType"
  /\ LET site == sites_config[si]
         rs == <<SiteExceptionMsg(NoneGetError)>>
     IN  /\ all_results' = AssignResult(all_results,
                             [name |-> site.name, results |-> rs, url |-> site.url,
                              error |-> TRUE])
         /\ produced' = Append(produced,
                          [site |-> si, name |-> site.name, results |-> rs, cats |-> <<>>,
                           success_count |-> 0, raised |-> TRUE])
  /\ events' = AfterSite(events)
  /\ si' = si + 1
  /\ UNCHANGED <<doc, pc, sites_config, pushplus_config, notification, ai, results,
                 formhash, msg, push, last, cats, resp>>

\* sign_site, lines 376-388: up to the first account
SignSiteBegin ==
  /\ pc = "site"
  /\ si <= Len(sites_config)
  /\ sites_config[si].options.type = "dict"
  /\ results' = <<>>
  /\ cats' = <<>>
  /\ ai' = 1
  /\ last' = NoLast
  /\ pc' = "account"
  /\ UNCHANGED <<doc, sites_config, pushplus_config, notification, si, formhash, msg,
                 all_results, push, events, produced, resp>>

\* sign_site leaving its loop at the first account that failed
ReturnStopsAtFailure(m, cat, evs) ==
  LET site == sites_config[si]
      n == Len(site.accounts)
      rs == Append(results, m)
      cs == Append(cats, cat)
  IN  /\ results' = rs
      /\ cats' = cs
      /\ IF ai < n /\ cat \notin {"token_fail", "request_fail"}
         THEN /\ events' = IF RotateDelay(site.options, ai, n)
                           THEN Append(evs, Event("sleep2", si, ai)) ELSE evs
              /\ ai' = ai + 1
              /\ pc' = "account"
              /\ UNCHANGED <<si, all_results, produced>>
         ELSE /\ events' = AfterSite(IF RotateDelay(site.options, ai, n)
                                     THEN Append(evs, Event("sleep2", si, ai)) ELSE evs)
              /\ all_results' = AssignResult(all_results,
                                  [name |-> site.name, results |-> rs, url |-> site.url,
                                   error |-> FALSE])
              /\ produced' = Append(produced,
                               [site |-> si, name |-> site.name, results |-> rs,
                                cats |-> cs, success_count |-> SuccessCount(rs),
                                raised |-> FALSE])
              /\ ai' = ai
              /\ si' = si + 1
              /\ pc' = "site"

\* sign_account returned m: sign_site appends it, sleeps 2 seconds or not, and
\* goes on to the next account; after the last account it counts the
\* successes and returns to main, which stores the results (lines 391-402,
\* 427-430, 440-442)
Return(m, cat, evs) ==
  LET site == sites_config[si]
      n == Len(site.accounts)
      rs == Append(results, m)
      cs == Append(cats, cat)
  IN  /\ results' = rs
      /\ cats' = cs
      /\ IF ai < n
         THEN /\ events' = IF RotateDelay(site.options, ai, n)
                           THEN Append(evs, Event("sleep2", si, ai)) ELSE evs
              /\ ai' = ai + 1
              /\ pc' = "account"
              /\ UNCHANGED <<si, all_results, produced>>
         ELSE /\ events' = AfterSite(IF RotateDelay(site.options, ai, n)
                                     THEN Append(evs, Event("sleep2", si, ai)) ELSE evs)
              /\ all_results' = AssignResult(all_results,
                                  [name |-> site.name, results |-> rs, url |-> site.url,
                                   error |-> FALSE])
              /\ produced' = Append(produced,
                               [site |-> si, name |-> site.name, results |-> rs,
                                cats |-> cs, success_count |-> SuccessCount(rs),
                                raised |-> FALSE])
              /\ ai' = ai
              /\ si' = si + 1
              /\ pc' = "site"

\* sign_account, lines 327-329: the account brings its own formhash
UseCustomFormhash ==
  /\ pc = "account"
  /\ sites_config[si].accounts[ai].formhash /= ""
  /\ formhash' = sites_config[si].accounts[ai].formhash
  /\ msg' = <<>>
  /\ last' = [NoLast EXCEPT !.site = si, !.acct = ai, !.home = "skipped"]
  /\ pc' = "sign"
  /\ UNCHANGED <<doc, sites_config, pushplus_config, notification, si, ai, results,
                 all_results, push, events, cats, produced, resp>>

\* sign_account, lines 330-336: the homepage GET of fetch_formhash
FetchFormhash ==
  /\ pc = "account"
  /\ sites_config[si].accounts[ai].formhash = ""
  /\ \E answer \in HomeAnswers :
       LET r == fetch_formhash(answer)
           evs == Append(events, Event("home", si, ai))
           started == [NoLast EXCEPT !.site = si, !.acct = ai]
       IN  IF r.ok
           THEN /\ formhash' = r.formhash
                /\ msg' = <<>>
                /\ last' = [started EXCEPT !.home = "ok"]
                /\ events' = evs
                /\ pc' = "sign"
                /\ UNCHANGED <<si, ai, results, all_results, cats, produced>>
           ELSE LET m == TokenFailMsg(ai, r.error)
                IN  /\ formhash' = ""
                    /\ msg' = m
                    /\ last' = [started EXCEPT
                                  !.home = IF answer.kind = "netfail" THEN "netfail"
                                           ELSE "notfound",
                                  !.cat = "token_fail", !.out = m, !.returned = TRUE]
                    /\ Return(m, "token_fail", evs)
  /\ UNCHANGED <<doc, sites_config, pushplus_config, notification, push, resp>>

\* sign_account, lines 338-362: the sign-in GET and the classification
SignRequest ==
  /\ pc = "sign"
  /\ \E answer \in SignAnswers :
       LET evs == Append(events, Event("sign", si, ai))
           url == SignUrl(sites_config[si].url, formhash)
       IN  IF answer.kind = "netfail"
           THEN LET m == RequestFailMsg(ai, answer.cause)
                IN  /\ msg' = m
                    /\ last' = [last EXCEPT !.sign = "netfail", !.sign_url = url,
                                            !.cat = "request_fail", !.out = m,
                                            !.returned = TRUE]
                    /\ Return(m, "request_fail", evs)
           ELSE LET c == classify(answer.status, answer.body)
                IN  /\ msg' = c.msg
                    /\ last' = [last EXCEPT !.sign = "response", !.sign_url = url,
                                            !.cat = c.cat, !.cls = c.msg]
                    /\ events' = evs
                    /\ pc' = "days"
                    /\ UNCHANGED <<si, ai, results, all_results, cats, produced>>
  /\ UNCHANGED <<doc, sites_config, pushplus_config, notification, formhash, push, resp>>

\* sign_account, lines 364-373: the streak GET, the suffix, the return
FetchContinuousDays ==
  /\ pc = "days"
  /\ \E answer \in DaysAnswers :
       LET days == fetch_continuous_days(answer)
           m == AppendDays(msg, days)
           evs == Append(events, Event("days", si, ai))
       IN  /\ msg' = m
           /\ last' = [last EXCEPT
                         !.days = IF answer.kind = "netfail" THEN "netfail"
                                  ELSE IF answer.hits = <<>> THEN "nohit" ELSE "value",
                         !.days_val = IF days = <<>> THEN "" ELSE days[1],
                         !.out = m, !.returned = TRUE]
           /\ Return(m, last.cat, evs)
  /\ UNCHANGED <<doc, sites_config, pushplus_config, notification, formhash, push, resp>>

\* main, lines 444-472: after the loop, the summary and the push notification
Report ==
  /\ pc = "site"
  /\ si > Len(sites_config)
  /\ push' = IF pushplus_config.enabled /\ pushplus_config.token /= ""
             THEN LET c == format_push_content(all_results)
                  IN  [sent |-> TRUE, title |-> Title(c.total_success, c.total_accounts),
                       total_success |-> c.total_success,
                       total_accounts |-> c.total_accounts]
             ELSE NoPush
  /\ pc' = "done"
  /\ UNCHANGED <<doc, sites_config, pushplus_config, notification, si, ai, results,
                 formhash, msg, all_results, events, last, cats, produced, resp>>

Next ==
  \/ LoadConfig
  \/ SignSiteRaises
  \/ SignSiteBegin
  \/ UseCustomFormhash
  \/ FetchFormhash
  \/ SignRequest
  \/ FetchContinuousDays
  \/ Report

\* a run of main over a document of several sites
Spec == Init /\ [][Next]_vars

\* main starts on a document of one site of up to MaxAccounts accounts
InitSite ==
  \E ks \in AccountCounts(1, MaxAccounts, MaxAccounts) :
    \E s \in SiteListsFor(ks, RunP) :
      InitWith(SitesDocument(s, PushOn))

\* a run of main over a document of one site
SpecSite == InitSite /\ [][Next]_vars

\* load_config is given a document of up to MaxCfgSites sites naming up to
\* MaxCfgAccounts accounts together, or a legacy document
InitConfig ==
  \/ \E n \in 0..MaxCfgSites :
       \E ks \in AccountCounts(n, MaxCfgAccounts, MaxCfgAccounts) :
         \E s \in SiteListsFor(ks, CfgP) :
           InitWith(SitesDocument(s, PushOff))
  \/ \E u \in CfgP.urls \cup {<<>>} :
       \E c \in SeqsUpTo({a.cookies : a \in CfgP.accts}, MaxCfgAccounts) :
         InitWith(LegacyDocument(u, c, EmptyOptions, PushOff))

NextConfig == LoadConfig

\* load_config alone, over a wider range of documents
SpecConfig == InitConfig /\ [][NextConfig]_vars

\* the tokens response bodies are built from
BodyAlphabet == {" ", "<?xml", "jinri", "yi", "qian", "dao", "chenggong"}

\* a response of any status whose body has up to MaxBodyLen tokens
InitClassify ==
  /\ doc = SitesDocument(<<>>, PushOff)
  /\ pc = "classify"
  /\ resp \in {[status |-> st, body |-> b] :
                 st \in Statuses,
                 b \in SeqsUpTo(BodyAlphabet, MaxBodyLen) \cup Bodies
                         \cup {BodySuccessNoReward}}
  /\ InitRest

\* sign_account, lines 349-362, on the response held in resp
Classify ==
  /\ pc = "classify"
  /\ msg' = classify(resp.status, resp.body).msg
  /\ cats' = <<classify(resp.status, resp.body).cat>>
  /\ pc' = "classified"
  /\ UNCHANGED <<doc, sites_config, pushplus_config, notification, si, ai, results,
                 formhash, all_results, push, events, last, produced, resp>>

NextClassify == Classify

\* the classification alone, over a wider range of responses
SpecClassify == InitClassify /\ [][NextClassify]_vars

-----------------------------------------------------------------------------
(* The configuration as written, for the statements about load_config *)

\* the sites a document configures: url and accounts as written
ConfiguredSites(d) ==
  IF d.format = "sites"
  THEN [i \in 1..Len(d.sites) |->
          [url |-> d.sites[i].url,
           accounts |-> IF d.sites[i].auth.kind = "accounts" THEN d.sites[i].auth.accounts
                        ELSE [j \in 1..Len(d.sites[i].auth.cookies) |->
                                [cookies |-> d.sites[i].auth.cookies[j], formhash |-> ""]]]]
  ELSE <<[url |-> d.site_url,
          accounts |-> [j \in 1..Len(d.cookies) |-> [cookies |-> d.cookies[j], formhash |-> ""]]]>>

\* the positions of the accounts with a non-empty cookie string
NonEmptyCookies(accounts) == {j \in 1..Len(accounts) : accounts[j].cookies /= ""}

\* a url is empty when nothing is left of it without its trailing slashes
UrlEmpty(url) == \A i \in 1..Len(url) : url[i] = "/"

ValidSites(d) ==
  {i \in 1..Len(ConfiguredSites(d)) :
     /\ ~UrlEmpty(ConfiguredSites(d)[i].url)
     /\ NonEmptyCookies(ConfiguredSites(d)[i].accounts) /= {}}

\* the k-th smallest member of a set of numbers
RECURSIVE Kth(_, _)
Kth(S, k) ==
  LET m == CHOOSE x \in S : \A y \in S : x <= y
  IN  IF k = 1 THEN m ELSE Kth(S \ {m}, k - 1)

\* C6: every site load_config returns has a non-empty url without a trailing
\* slash and at least one account, every returned account has a non-empty
\* cookie string, the returned sites are the configured sites that have a
\* non-empty url and a non-empty-cookie account, in order, each with exactly
\* its non-empty-cookie accounts in order, and load_config fails if and only
\* if no configured site is valid.
C6_LoadConfigValidates ==
  /\ pc = "exit1" => ValidSites(doc) = {}
  /\ pc = "site" =>
       /\ ValidSites(doc) /= {}
       /\ Len(sites_config) = Cardinality(ValidSites(doc))
       /\ \A k \in 1..Len(sites_config) :
            LET site == sites_config[k]
                conf == ConfiguredSites(doc)[Kth(ValidSites(doc), k)]
                keep == NonEmptyCookies(conf.accounts)
            IN  /\ site.url /= <<>>
                /\ site.url[Len(site.url)] /= "/"
                /\ StartsWith(conf.url, site.url)
                /\ UrlEmpty(SubSeq(conf.url, Len(site.url) + 1, Len(conf.url)))
                /\ Len(site.accounts) >= 1
                /\ Len(site.accounts) = Cardinality(keep)
                /\ \A j \in 1..Len(site.accounts) :
                     /\ site.accounts[j].cookies /= ""
                     /\ site.accounts[j].cookies = conf.accounts[Kth(keep, j)].cookies
                     /\ site.accounts[j].formhash =
                          (IF "formhash" \in DOMAIN conf.accounts[Kth(keep, j)]
                           THEN conf.accounts[Kth(keep, j)].formhash ELSE "")

\* a load that dropped a site and, of the site it kept, an account and the
\* trailing slashes of its url
C6_Witness ==
  /\ pc = "site"
  /\ doc.format = "sites"
  /\ Len(doc.sites) = 2
  /\ Len(sites_config) = 1
  /\ Len(doc.sites[1].auth.accounts) = 2
  /\ Len(sites_config[1].accounts) = 1
  /\ doc.sites[1].url /= sites_config[1].url

-----------------------------------------------------------------------------
(* The classification *)

C3_Xml(text) == text /= <<>> /\ text[1] = "<?xml"
C3_Already(text) == Contains(text, <<"jinri", "yi", "qian">>)
C3_Both(text) ==
  Contains(text, <<"qian", "dao", "chenggong">>) /\ Contains(text, <<"yi", "qian", "dao">>)
C3_Categories == {"already", "success", "unknown", "status_fail"}

\* C3 as claimed: every response maps to one of the four categories, and a
\* body that satisfies a category's predicate gets that category; in
\* particular status 200 with both success phrases gives 'success'.
C3_AsClaimed ==
  pc = "classified" =>
    LET text == Strip(resp.body)
        cat == cats[1]
    IN  /\ cat \in C3_Categories
        /\ (resp.status = 200 /\ C3_Xml(text) /\ C3_Already(text)) => cat = "already"
        /\ (resp.status = 200 /\ C3_Both(text)) => cat = "success"
        /\ (resp.status = 200 /\ ~(C3_Xml(text) /\ C3_Already(text)) /\ ~C3_Both(text))
             => cat = "unknown"
        /\ resp.status /= 200 => cat = "status_fail"

\* C3, amended: the checks are ordered.  Status 200 with an XML-looking body
\* holding the already-signed marker gives 'already signed' whatever else the
\* body holds; status 200 with both success phrases gives 'success' only when
\* that first check does not match; status 200 with neither gives 'unknown
\* response'; any other status gives 'failed, status code'.  The message is
\* the category's message.
C3_OrderedClassification ==
  pc = "classified" =>
    LET text == Strip(resp.body)
        cat == cats[1]
        first == resp.status = 200 /\ C3_Xml(text) /\ C3_Already(text)
        second == resp.status = 200 /\ ~first /\ C3_Both(text)
    IN  /\ cat \in C3_Categories
        /\ first <=> cat = "already"
        /\ second <=> cat = "success"
        /\ (resp.status = 200 /\ ~first /\ ~second) <=> cat = "unknown"
        /\ resp.status /= 200 <=> cat = "status_fail"
        /\ cat = "already" => msg = AlreadyMsg
        /\ cat = "success" => StartsWith(msg, SuccessMsg(<<>>)) /\ Len(msg) > Len(SuccessMsg(<<>>))
        /\ cat = "unknown" => msg = UnknownMsg
        /\ cat = "status_fail" => msg = StatusFailMsg(resp.status)

\* a body matching both the first and the second check, classified
C3_Witness ==
  /\ pc = "classified"
  /\ resp.status = 200
  /\ C3_Xml(Strip(resp.body)) /\ C3_Already(Strip(resp.body)) /\ C3_Both(Strip(resp.body))
  /\ cats = <<"already">>

-----------------------------------------------------------------------------
(* Reading the event log *)

Gets == {"home", "sign", "days"}

\* the positions in events of the HTTP requests of account a of site s
GetPositions(s, a) ==
  {p \in 1..Len(events) : events[p].site = s /\ events[p].acct = a /\ events[p].ev \in Gets}

\* the HTTP requests of account a of site s, in the order issued
Ops(s, a) ==
  LET ps == GetPositions(s, a)
  IN  [k \in 1..Cardinality(ps) |-> events[Kth(ps, k)].ev]

\* the positions of the 2-second sleep that followed account a of site s
Sleep2Positions(s, a) ==
  {p \in 1..Len(events) : events[p] = Event("sleep2", s, a)}

Sleep3Positions == {p \in 1..Len(events) : events[p].ev = "sleep3"}

-----------------------------------------------------------------------------
(* main: the notification title, the report, the delay between sites *)

\* C1 as claimed: when a push notification is sent, its title is the success
\* title if and only if every outcome any site produced during the run
\* matches the success test, and the failure title otherwise.
C1_AsClaimed ==
  (pc = "done" /\ push.sent) =>
    /\ push.title \in {SuccessTitle, FailureTitle}
    /\ push.title = SuccessTitle <=>
         \A k \in 1..Len(produced) :
           \A i \in 1..Len(produced[k].results) : IsSuccess(produced[k].results[i])

\* C5 as claimed: every configured site is run exactly once, in order, and
\* after the loop the report holds, for every configured site, the outcome
\* list its run returned, or the one synthetic outcome and the error flag if
\* its run raised.
C5_AsClaimed ==
  pc = "done" =>
    /\ Len(produced) = Len(sites_config)
    /\ \A k \in 1..Len(produced) :
         /\ produced[k].site = k
         /\ produced[k].raised =>
              produced[k].results = <<SiteExceptionMsg(NoneGetError)>>
         /\ \E j \in 1..Len(all_results) :
              /\ all_results[j].name = sites_config[k].name
              /\ all_results[j].results = produced[k].results
              /\ all_results[j].error = produced[k].raised

\* C9 as claimed: with N sites configured, main sleeps 3 seconds after a site
\* only when another site remains: N - 1 times for N >= 2, never for N = 1.
C9_AsClaimed ==
  /\ \A p \in Sleep3Positions : events[p].site < Len(sites_config)
  /\ pc = "done" =>
       Cardinality(Sleep3Positions) =
         (IF Len(sites_config) >= 2 THEN Len(sites_config) - 1 ELSE 0)

-----------------------------------------------------------------------------
(* sign_site and sign_account *)

\* C2 as claimed: the success count of a site is the number of its accounts
\* whose outcome category is 'check-in success' or 'already signed today';
\* token-fetch failures, request failures, non-200 statuses and unknown
\* responses count as failures, with or without a streak suffix and whatever
\* the failure cause text is.
C2_AsClaimed ==
  \A k \in 1..Len(produced) :
    ~produced[k].raised =>
      produced[k].success_count =
        Cardinality({i \in 1..Len(produced[k].cats) :
                       produced[k].cats[i] \in {"success", "already"}})

\* C4: a site run raises only when its options are None, never because of an
\* account: sign_account hands back one non-empty display string whatever
\* the token fetch, the sign-in request and the streak fetch answer, so
\* sign_site processes the accounts in list order, holds one outcome per
\* account processed, and returns as many outcomes as the site has accounts,
\* outcome i being that of account i.
C4_EveryAccountReturns ==
  /\ \A k \in 1..Len(produced) :
       LET p == produced[k]
           site == sites_config[p.site]
       IN  /\ p.raised => site.options.type = "NoneType"
           /\ ~p.raised =>
                /\ Len(p.results) = Len(site.accounts)
                /\ \A i \in 1..Len(p.results) :
                     /\ p.results[i] /= <<>>
                     /\ Ops(p.site, i) /= <<>>
                     /\ p.cats[i] \in {"token_fail", "request_fail"} =>
                          p.results[i][2] = ToString(i)
  /\ pc \in {"account", "sign", "days"} =>
       /\ ai <= Len(sites_config[si].accounts)
       /\ Len(results) = ai - 1
  /\ last.returned =>
       /\ last.out /= <<>>
       /\ Len(results) >= last.acct
       /\ results[last.acct] = last.out
  /\ \A p, q \in 1..Len(events) :
       (p < q /\ events[p].site = events[q].site
          /\ events[p].ev \in Gets /\ events[q].ev \in Gets)
         => events[p].acct <= events[q].acct

\* a site returned two outcomes, the first a failure, the second a success
C4_Witness ==
  \E k \in 1..Len(produced) :
    /\ ~produced[k].raised
    /\ Len(produced[k].results) = 2
    /\ produced[k].cats[1] \in {"token_fail", "request_fail"}
    /\ produced[k].cats[2] = "success"

\* C7: when the sign-in request returned a response, the streak page is
\* fetched exactly once, after the sign-in request, and the outcome is the
\* classification message followed by the streak suffix with the value
\* found if a value was found, and exactly the classification message if
\* none was found or the fetch failed; the streak fetch never changes
\* whether the outcome counts as a success.  Without a response there is no
\* streak fetch.
C7_StreakNeverAltersOutcome ==
  /\ (last.returned /\ last.sign = "response") =>
       /\ last.days \in {"netfail", "nohit", "value"}
       /\ Ops(last.site, last.acct) \in {<<"home", "sign", "days">>, <<"sign", "days">>}
       /\ last.days = "value" =>
            /\ last.days_val \in {"0", "7"}
            /\ last.out = last.cls \o DaysSuffix(last.days_val)
       /\ last.days /= "value" => last.out = last.cls
       /\ IsSuccess(last.out) <=> IsSuccess(last.cls)
       /\ IsSuccess(last.out) <=> last.cat \in {"success", "already"}
  /\ (last.returned /\ last.sign /= "response") =>
       /\ last.days = ""
       /\ \A k \in 1..Len(Ops(last.site, last.acct)) : Ops(last.site, last.acct)[k] /= "days"

\* a success whose streak fetch failed on the network
C7_Witness ==
  /\ last.returned
  /\ last.sign = "response"
  /\ last.days = "netfail"
  /\ last.cat = "success"
  /\ last.out = last.cls

\* C8: an account's HTTP requests are the homepage GET, the sign-in GET and
\* the streak GET in that order, each at most once; the homepage GET is
\* issued if and only if the account has no formhash of its own; the
\* sign-in GET carries the resolved formhash; a failed token fetch is
\* followed by no further request and the outcome is its failure message.
C8_RequestOrder ==
  /\ \A s \in 1..Len(sites_config) :
       \A a \in 1..Len(sites_config[s].accounts) :
         LET ops == Ops(s, a)
             own == sites_config[s].accounts[a].formhash
         IN  ops /= <<>> =>
               /\ ops \in {<<"home">>, <<"home", "sign">>, <<"home", "sign", "days">>,
                           <<"sign">>, <<"sign", "days">>}
               /\ ops[1] = "home" <=> own = ""
  /\ last.sign /= "" =>
       LET own == sites_config[last.site].accounts[last.acct].formhash
       IN  /\ formhash /= ""
           /\ own /= "" => formhash = own
           /\ own = "" => (last.home = "ok" /\ formhash \in {"h1", "h2"})
           /\ last.sign_url = SignUrl(sites_config[last.site].url, formhash)
  /\ last.home \in {"netfail", "notfound"} =>
       /\ last.returned
       /\ Ops(last.site, last.acct) = <<"home">>
       /\ StartsWith(last.out, TokenFailMsg(last.acct, <<>>))
       /\ last.cat = "token_fail"

\* a homepage without a formhash: the account ended after its one request
C8_Witness ==
  /\ last.home = "notfound"
  /\ last.returned
  /\ Ops(last.site, last.acct) = <<"home">>

\* options.get("rotate_accounts", True) as the claim reads it
C10_RotateOn(options) == options.rotate_accounts \in {"absent", "True"}

\* C10: sign_site sleeps 2 seconds after account i if and only if
\* rotate_accounts is true (or absent) and account i is not the last, once
\* per such account, K - 1 times for a site of K accounts and never when
\* rotate_accounts is false; the sleep comes after the requests of account i
\* and before the first request of account i + 1.
C10_AccountDelay ==
  /\ \A p \in 1..Len(events) :
       events[p].ev = "sleep2" =>
         /\ C10_RotateOn(sites_config[events[p].site].options)
         /\ events[p].acct < Len(sites_config[events[p].site].accounts)
         /\ \A q \in GetPositions(events[p].site, events[p].acct) : q < p
         /\ \A q \in GetPositions(events[p].site, events[p].acct + 1) : p < q
  /\ \A s \in 1..Len(sites_config) :
       \A a \in 1..Len(sites_config[s].accounts) :
         /\ Cardinality(Sleep2Positions(s, a)) <= 1
         /\ (a > 1 /\ Ops(s, a) /= <<>> /\ C10_RotateOn(sites_config[s].options))
              => Cardinality(Sleep2Positions(s, a - 1)) = 1
  /\ \A k \in 1..Len(produced) :
       ~produced[k].raised =>
         LET s == produced[k].site
             K == Len(sites_config[s].accounts)
         IN  Cardinality({p \in 1..Len(events) :
                            events[p].ev = "sleep2" /\ events[p].site = s}) =
               (IF C10_RotateOn(sites_config[s].options) THEN K - 1 ELSE 0)

\* a site of two accounts with rotate_accounts absent: one sleep, between them
C10_Witness ==
  \E k \in 1..Len(produced) :
    /\ ~produced[k].raised
    /\ Len(sites_config[produced[k].site].accounts) = 2
    /\ sites_config[produced[k].site].options.rotate_accounts = "absent"
    /\ Cardinality(Sleep2Positions(produced[k].site, 1)) = 1

=============================================================================
